---- MODULE Spec2Model ----
(***************************************************************************)
(* A model of the aggregation engine of qwaykee/statistics (src/main.go):  *)
(* the Statistics aggregate root, the recording Middleware run by          *)
(* concurrent requests, and the query operations.                          *)
(*                                                                         *)
(* Pointers.  A *Visit is an address into heap (the Visit objects in       *)
(* allocation order).  A *Page / *Visitor is the key of the entity in      *)
(* Pages / Visitors: an entity is created once under its key and never     *)
(* replaced, so the key identifies the object.  NilPtr is the nil pointer. *)
(***************************************************************************)
EXTENDS Integers, Sequences, FiniteSets, TLC

VARIABLES
    Visitors,          \* Statistics.Visitors : map[string]*Visitor
    Pages,             \* Statistics.Pages : map[string]*Page
    Visits,            \* Statistics.Visits : map[int]*Visit
    VisitorsLanguage,  \* Statistics.VisitorsLanguage : map[string]int
    currentVisitID,    \* Statistics.currentVisitID
    mutex,             \* Statistics.mutex : 0 when free, else the holder
    heap,              \* the Visit objects, by address
    now,               \* the clock read by time.Now / time.Since
    req,               \* per request: position in Middleware and its locals
    qry,               \* the caller of MostVisitedPages / LeastVisitedPages
    ret                \* what the last step returned to its caller, if a query

vars == <<Visitors, Pages, Visits, VisitorsLanguage, currentVisitID, mutex,
          heap, now, req, qry, ret>>

model == <<Visitors, Pages, Visits, VisitorsLanguage, currentVisitID, heap>>

----------------------------------------------------------------------------
(* Bounds *)

NumRequests == 3
MaxTime == 2

ReqIds == 1..NumRequests
Times == 0..MaxTime

----------------------------------------------------------------------------
(* Strings.  A string is kept as a TLA+ string; Chars gives its characters *)
(* so that strings.Contains and the regular expression work on the text.   *)

Chars(s) ==
    CASE s = "" -> <<>>
      [] s = "text/html" -> <<"t","e","x","t","/","h","t","m","l">>
      [] s = "text/html; charset=utf-8" ->
            <<"t","e","x","t","/","h","t","m","l",";"," ",
              "c","h","a","r","s","e","t","=","u","t","f","-","8">>
      [] s = "image/png" -> <<"i","m","a","g","e","/","p","n","g">>
      [] s = "application/json; charset=utf-8" ->
            <<"a","p","p","l","i","c","a","t","i","o","n","/","j","s","o","n",
              ";"," ","c","h","a","r","s","e","t","=","u","t","f","-","8">>
      [] s = "text/plain" -> <<"t","e","x","t","/","p","l","a","i","n">>
      [] s = "en;q=0.9" -> <<"e","n",";","q","=","0",".","9">>
      [] s = "fr;q=0.8" -> <<"f","r",";","q","=","0",".","8">>
      [] s = "en-US,en;q=0.5" ->
            <<"e","n","-","U","S",",","e","n",";","q","=","0",".","5">>
      [] s = "fr-fr;q=0.9,fr;q=0.8" ->
            <<"f","r","-","f","r",";","q","=","0",".","9",",",
              "f","r",";","q","=","0",".","8">>
      [] s = "en" -> <<"e","n">>
      [] s = "fr" -> <<"f","r">>

LanguageCodes == {"en", "fr"}

LowerCase == {"a","b","c","d","e","f","g","h","i","j","k","l","m",
              "n","o","p","q","r","s","t","u","v","w","x","y","z"}

\* strings.Contains(s, substr)
Contains(s, substr) ==
    LET cs == Chars(s)
        cu == Chars(substr)
    IN \E i \in 0..(Len(cs) - Len(cu)) : SubSeq(cs, i + 1, i + Len(cu)) = cu

\* Whether `([a-z]{2});` matches the characters cs at position i.
MatchAt(cs, i) ==
    /\ i + 2 <= Len(cs)
    /\ cs[i] \in LowerCase
    /\ cs[i + 1] \in LowerCase
    /\ cs[i + 2] = ";"

\* acceptLanguageRe.FindAllStringSubmatch(lang, -1), each match's group 1:
\* the leftmost matches, none overlapping the one before it.
RECURSIVE FindAllFrom(_, _)
FindAllFrom(cs, i) ==
    IF i + 2 > Len(cs) THEN <<>>
    ELSE IF MatchAt(cs, i)
         THEN <<SubSeq(cs, i, i + 1)>> \o FindAllFrom(cs, i + 3)
         ELSE FindAllFrom(cs, i + 1)

\* The string of a two-letter group.
CodeOf(g) == CHOOSE c \in LanguageCodes : Chars(c) = g

FindAllStringSubmatch(lang) ==
    LET gs == FindAllFrom(Chars(lang), 1)
    IN [k \in 1..Len(gs) |-> CodeOf(gs[k])]

----------------------------------------------------------------------------
(* Types and constructors *)

Dynamic == "route"
Static == "static"

NilPtr == "nil"

\* The zero time.Time and a zero value of each struct.
ZeroTime == -1

EmptyPage == [Path |-> "", Visits |-> <<>>]

EmptyVisitor == [IP |-> "", Language |-> "", DynamicVisits |-> 0,
                 StaticVisits |-> 0, History |-> <<>>]

EmptyVisit == [ID |-> 0, Date |-> ZeroTime, Type |-> "", LoadingTime |-> 0,
               TimeSpent |-> 0, CodeIssued |-> 0, ContentType |-> "",
               Referer |-> "", VisitedBy |-> NilPtr, Page |-> NilPtr]

\* m[k] = v on a Go map.
Put(m, k, v) == [x \in (DOMAIN m) \cup {k} |-> IF x = k THEN v ELSE m[x]]

\* New()
EmptyMap == <<>>

----------------------------------------------------------------------------
(* The requests the HTTP layer hands to the recorder: path, client         *)
(* address, headers, what the downstream handler leaves in the context     *)
(* under "PageType" (nothing, a PageType, or a value of another type) and  *)
(* the response it writes.                                                 *)

NoKey == [exists |-> FALSE, type |-> "", val |-> ""]
KeyPageType(v) == [exists |-> TRUE, type |-> "PageType", val |-> v]
KeyString(v) == [exists |-> TRUE, type |-> "string", val |-> v]

Request(path, ip, lang, key, ct, code) ==
    [Path |-> path, ClientIP |-> ip, AcceptLanguage |-> lang, Referer |-> "",
     PageTypeKey |-> key, ContentType |-> ct, Status |-> code]

Requests ==
    { Request("/a", "1.2.3.4", "en;q=0.9", NoKey, "text/html; charset=utf-8", 200),
      Request("/logo", "1.2.3.4", "fr;q=0.8", NoKey, "image/png", 200),
      Request("/a", "5.6.7.8", "fr;q=0.8", KeyPageType(Dynamic),
              "application/json; charset=utf-8", 200),
      Request("/logo", "5.6.7.8", "en-US,en;q=0.5", KeyPageType(Static), "text/html", 404),
      Request("/a", "5.6.7.8", "fr-fr;q=0.9,fr;q=0.8", KeyPageType("api"),
              "text/plain", 200),
      Request("/logo", "1.2.3.4", "", KeyString("route"), "image/png", 200) }

NoRequest == Request("", "", "", NoKey, "", 0)

Paths == {q.Path : q \in Requests}
IPs == {q.ClientIP : q \in Requests}

----------------------------------------------------------------------------
(* Visitor and Page methods *)

\* Visitor.LastDynamicVisit: the address of the last Dynamic visit of the
\* history, or 0 when the method returns a fresh &Visit{}.
LastDynamicVisit(v) ==
    LET dyn == {i \in 1..Len(v.History) : heap[v.History[i]].Type = Dynamic}
    IN IF dyn = {} THEN 0
       ELSE v.History[CHOOSE i \in dyn : \A j \in dyn : j <= i]

----------------------------------------------------------------------------
(* Statistics.Middleware *)

NoRet == [op |-> "none"]

Idle == [pc |-> "idle", in |-> NoRequest, VisitID |-> 0, start |-> 0,
         loadingTime |-> 0, pageType |-> ""]

\* AllocUnlock with the unlock of line 98 left out: r keeps the lock.
AllocUnlockNot(r) == r

\* Line 98: s.mutex.Unlock(), the holder of the mutex after the allocation.
AllocUnlock(r) == 0

\* Alloc that also stores an empty visit under the new identifier, to be
\* filled in after the handler.
AllocWithVisit(r) ==
    /\ req[r].pc = "idle"
    /\ IF r = 1 THEN TRUE ELSE req[r - 1].pc # "idle"
    /\ mutex = 0
    /\ req' = [req EXCEPT ![r] = [@ EXCEPT !.pc = "allocated",
                                              !.VisitID = currentVisitID + 1]]
    /\ currentVisitID' = currentVisitID + 1
    /\ heap' = Append(heap, EmptyVisit)
    /\ Visits' = Put(Visits, currentVisitID + 1, Len(heap) + 1)
    /\ mutex' = AllocUnlock(r)
    /\ ret' = NoRet
    /\ UNCHANGED <<Visitors, Pages, VisitorsLanguage, now, qry>>

\* Lines 93-98: allocate the identifier under the lock and publish it in the
\* request's context.  Requests enter in the order of their index.
Alloc(r) ==
    /\ req[r].pc = "idle"
    /\ IF r = 1 THEN TRUE ELSE req[r - 1].pc # "idle"
    /\ mutex = 0
    /\ req' = [req EXCEPT ![r] = [@ EXCEPT !.pc = "allocated",
                                              !.VisitID = currentVisitID + 1]]
    /\ currentVisitID' = currentVisitID + 1
    /\ mutex' = AllocUnlock(r)
    /\ ret' = NoRet
    /\ UNCHANGED <<Visitors, Pages, Visits, VisitorsLanguage, heap, now, qry>>

\* Lines 100-102: start := time.Now(), then the downstream handler runs.
Begin(r) ==
    /\ req[r].pc = "allocated"
    /\ req' = [req EXCEPT ![r] = [@ EXCEPT !.pc = "handler", !.start = now]]
    /\ ret' = NoRet
    /\ UNCHANGED <<model, mutex, now, qry>>

\* Lines 102-107: c.Next() returns; loadingTime := time.Since(start).  The
\* recorder reads the request, its context and the response only from here
\* on: q is what it will find there.
HandlerReturn(r) ==
    /\ req[r].pc = "handler"
    /\ \E q \in Requests :
          req' = [req EXCEPT ![r] = [@ EXCEPT !.pc = "returned", !.in = q,
                                              !.start = 0,
                                              !.loadingTime = now - req[r].start]]
    /\ ret' = NoRet
    /\ UNCHANGED <<model, mutex, now, qry>>

\* PageTypeOf with the test of line 148 as an equality with "text/html".
PageTypeOfExactMatch(key, contentType) ==
    IF key.exists /\ key.type = "PageType" THEN key.val
    ELSE IF contentType = "text/html" THEN Dynamic
    ELSE Static

\* Lines 139-152: the page type of the visit.
PageTypeOf(key, contentType) ==
    IF key.exists /\ key.type = "PageType" THEN key.val
    ELSE IF Contains(contentType, "text/html") THEN Dynamic
    ELSE Static

\* Lines 116-128: the language tally after a visitor with header lang is created.
RECURSIVE TallyLanguages(_, _)
TallyLanguages(tally, codes) ==
    IF codes = <<>> THEN tally
    ELSE LET c == Head(codes)
             n == IF c \in DOMAIN tally THEN tally[c] ELSE 0
         IN TallyLanguages(Put(tally, c, n + 1), Tail(codes))

\* Lines 109-155: take the lock, create the page and the visitor if absent,
\* close the visitor's last dynamic visit, classify, count.
PostLock(r) ==
    LET q == req[r].in
        pagePath == q.Path
        visitorIP == q.ClientIP
        pages1 == IF pagePath \in DOMAIN Pages THEN Pages
                  ELSE Put(Pages, pagePath, EmptyPage)
        created == visitorIP \notin DOMAIN Visitors
        visitors1 == IF created
                     THEN Put(Visitors, visitorIP,
                              [EmptyVisitor EXCEPT !.IP = q.ClientIP,
                                                   !.Language = q.AcceptLanguage])
                     ELSE Visitors
        visitor == visitors1[visitorIP]
        last == LastDynamicVisit(visitor)
        pageType == PageTypeOf(q.PageTypeKey, q.ContentType)
    IN /\ req[r].pc = "returned"
       /\ mutex = 0
       /\ mutex' = r
       /\ Pages' = pages1
       /\ VisitorsLanguage' =
             IF created
             THEN TallyLanguages(VisitorsLanguage, FindAllStringSubmatch(q.AcceptLanguage))
             ELSE VisitorsLanguage
       /\ heap' = IF Len(visitor.History) > 1 /\ last # 0
                  THEN [heap EXCEPT ![last].TimeSpent = now - heap[last].Date]
                  ELSE heap
       /\ Visitors' = [visitors1 EXCEPT ![visitorIP] =
             [@ EXCEPT !.DynamicVisits = IF pageType = Dynamic THEN @ + 1 ELSE @,
                       !.StaticVisits = IF pageType = Static THEN @ + 1 ELSE @]]
       /\ req' = [req EXCEPT ![r] = [@ EXCEPT !.pc = "locked", !.pageType = pageType]]
       /\ ret' = NoRet
       /\ UNCHANGED <<Visits, currentVisitID, now, qry>>

\* Line 159: the identifier the visit is given.
VisitIDOf(r) == currentVisitID

\* VisitDateOf with the date taken back to when the handler started.
VisitDateOfStart(r) == now - req[r].loadingTime

\* Line 161: the date the visit is given.
VisitDateOf(r) == now

\* AppendHistory with the append of line 172 left out.
AppendHistoryNot(history, addr) == history

\* Line 172: visitor.History = append(visitor.History, visit).
AppendHistory(history, addr) == Append(history, addr)

\* Lines 158-173 and the deferred unlock of line 110.
PostRecord(r) ==
    LET q == req[r].in
        visit == [ID |-> VisitIDOf(r), Date |-> VisitDateOf(r),
                  Type |-> req[r].pageType, LoadingTime |-> req[r].loadingTime,
                  TimeSpent |-> 0, CodeIssued |-> q.Status,
                  ContentType |-> q.ContentType, Referer |-> q.Referer,
                  VisitedBy |-> q.ClientIP, Page |-> q.Path]
        addr == Len(heap) + 1
    IN /\ req[r].pc = "locked"
       /\ mutex = r
       /\ heap' = Append(heap, visit)
       /\ Pages' = [Pages EXCEPT ![q.Path].Visits = Append(@, addr)]
       /\ Visitors' = [Visitors EXCEPT ![q.ClientIP].History = AppendHistory(@, addr)]
       /\ Visits' = Put(Visits, currentVisitID, addr)
       /\ mutex' = 0
       /\ req' = [req EXCEPT ![r] = [@ EXCEPT !.pc = "done", !.in = NoRequest,
                                                 !.loadingTime = 0,
                                                 !.pageType = ""]]
       /\ ret' = NoRet
       /\ UNCHANGED <<VisitorsLanguage, currentVisitID, now, qry>>

\* The clock advances.
Tick ==
    /\ now < MaxTime
    /\ now' = now + 1
    /\ ret' = NoRet
    /\ UNCHANGED <<model, mutex, req, qry>>

----------------------------------------------------------------------------
(* Results of the query operations: a value, an error value, or a panic. *)

Ok(v) == [kind |-> "ok", val |-> v]
Err(e) == [kind |-> "error", val |-> e]
Panic(e) == [kind |-> "panic", val |-> e]

DivideByZero == Panic("integer divide by zero")
NilDereference == Panic("nil pointer dereference")
NotFound == Err("visit not found")

\* A path, an address and an identifier nothing is recorded under.
NoPath == "/none"
NoIP == "9.9.9.9"
QueryPaths == Paths \cup {NoPath}
QueryIPs == IPs \cup {NoIP}
QueryIDs == 0..NumRequests

----------------------------------------------------------------------------
(* Statistics: accessors and counts *)

\* Statistics.GetPage
GetPage(path) == IF path \in DOMAIN Pages THEN Pages[path] ELSE EmptyPage

\* Statistics.GetVisitor
GetVisitor(ip) == IF ip \in DOMAIN Visitors THEN Visitors[ip] ELSE EmptyVisitor

\* Statistics.GetVisit
GetVisit(id) == IF id \in DOMAIN Visits THEN heap[Visits[id]] ELSE EmptyVisit

\* Statistics.VisitsCount
VisitsCount == Cardinality(DOMAIN Visits)

\* Statistics.VisitorsCount
VisitorsCount == Cardinality(DOMAIN Visitors)

\* Statistics.LanguagesCount: the map itself.
LanguagesCount == VisitorsLanguage

\* totalVisits of AverageDynamicVisitsPerVisitor over the visitors in ips.
RECURSIVE TotalHistory(_)
TotalHistory(ips) ==
    IF ips = {} THEN 0
    ELSE LET ip == CHOOSE x \in ips : TRUE
         IN Len(Visitors[ip].History) + TotalHistory(ips \ {ip})

\* Statistics.AverageDynamicVisitsPerVisitor: totalVisits / visitors.
AverageDynamicVisitsPerVisitor ==
    IF Cardinality(DOMAIN Visitors) = 0 THEN DivideByZero
    ELSE Ok(TotalHistory(DOMAIN Visitors) \div Cardinality(DOMAIN Visitors))

----------------------------------------------------------------------------
(* Page and Visitor: averages over the dynamic visits *)

RECURSIVE SumTimeSpent(_)
SumTimeSpent(visits) ==
    IF visits = <<>> THEN 0
    ELSE (IF heap[Head(visits)].Type = "route" THEN heap[Head(visits)].TimeSpent ELSE 0)
         + SumTimeSpent(Tail(visits))

RECURSIVE SumLoadingTime(_)
SumLoadingTime(visits) ==
    IF visits = <<>> THEN 0
    ELSE (IF heap[Head(visits)].Type = Dynamic THEN heap[Head(visits)].LoadingTime ELSE 0)
         + SumLoadingTime(Tail(visits))

\* The i of the averages: the visits of type "route".
CountDynamic(visits) ==
    Cardinality({k \in 1..Len(visits) : heap[visits[k]].Type = "route"})

\* a / b on Go integers: a run-time panic when b = 0.
GoDiv(a, b) == IF b = 0 THEN DivideByZero ELSE Ok(a \div b)

\* Page.AverageTimeSpent
PageAverageTimeSpent(p) == GoDiv(SumTimeSpent(p.Visits), CountDynamic(p.Visits))

\* Page.AverageLoadingTime
PageAverageLoadingTime(p) == GoDiv(SumLoadingTime(p.Visits), CountDynamic(p.Visits))

\* Visitor.AverageTimeSpent
VisitorAverageTimeSpent(v) == GoDiv(SumTimeSpent(v.History), CountDynamic(v.History))

\* time.Since(v.LastDynamicVisit().Date): the Date of a fresh &Visit{} is the
\* zero time, from which any duration is positive.
SinceLastDynamicVisit(v) ==
    LET last == LastDynamicVisit(v)
    IN IF last = 0 THEN now - ZeroTime ELSE now - heap[last].Date

\* Statistics.EstimatedCurrentVisitors: the loop evaluates both operands of
\* the comparison for every visitor, so one panic ends the whole call.
EstimatedCurrentVisitors ==
    IF \E ip \in DOMAIN Visitors : VisitorAverageTimeSpent(Visitors[ip]).kind = "panic"
    THEN DivideByZero
    ELSE Ok(Cardinality({ip \in DOMAIN Visitors :
                SinceLastDynamicVisit(Visitors[ip])
                    < VisitorAverageTimeSpent(Visitors[ip]).val}))

----------------------------------------------------------------------------
(* Page.GetVisit and Visitor.GetVisit: slices.BinarySearchFunc by Date *)

\* DateBefore with the operands of the comparison exchanged.
DateBeforeExchanged(a, date) == date < heap[a].Date

\* a.Date.Compare(b.Date) < 0 for the visit at address a and the target date.
DateBefore(a, date) == heap[a].Date < date

\* The loop of slices.BinarySearchFunc on x[i+1..j] (i, j as in Go, from 0).
RECURSIVE BinarySearchLoop(_, _, _, _)
BinarySearchLoop(x, date, i, j) ==
    IF i < j
    THEN LET h == (i + j) \div 2
         IN IF DateBefore(x[h + 1], date)
            THEN BinarySearchLoop(x, date, h + 1, j)
            ELSE BinarySearchLoop(x, date, i, h)
    ELSE i

\* slices.BinarySearchFunc: the position and whether the target is there.
BinarySearchFunc(x, date) ==
    LET i == BinarySearchLoop(x, date, 0, Len(x))
    IN [index |-> i, found |-> i < Len(x) /\ heap[x[i + 1]].Date = date]

\* Page.GetVisit / Visitor.GetVisit on the sequence of the entity.
GetVisitByDate(x, date) ==
    LET b == BinarySearchFunc(x, date)
    IN IF b.found THEN Ok(x[b.index + 1]) ELSE NotFound

----------------------------------------------------------------------------
(* Statistics.MostVisitedPages and LeastVisitedPages *)

\* The orders in which a range over the map s.Pages can yield its pages.
RangeOrders(m) ==
    LET n == Cardinality(DOMAIN m)
    IN {f \in [1..n -> DOMAIN m] : \A k \in DOMAIN m : \E i \in 1..n : f[i] = k}

\* Line 253: make([]*Page, n), a slice of n nil pointers.
MakePagesSlice(n) == [i \in 1..n |-> NilPtr]

\* Lines 253-257: the slice after the loop has appended the pages in order.
CopyPages(order) == MakePagesSlice(Len(order)) \o order

Swap(data, i, j) == [data EXCEPT ![i] = data[j], ![j] = data[i]]

\* Lines 261-263: cmp.Compare(len(a.Visits), len(b.Visits)) < 0, read from
\* the pages as they are when the comparison runs.
CompareLess(a, b) == Len(Pages[a].Visits) < Len(Pages[b].Visits)

\* slices.SortFunc on at most 12 elements is an insertion sort: element j
\* moves left while it compares less than its left neighbour.  A comparison
\* that reads a nil *Page panics.
RECURSIVE InsertLoop(_, _)
InsertLoop(st, j) ==
    IF ~st.ok \/ j <= 1 THEN st
    ELSE IF st.data[j] = NilPtr \/ st.data[j - 1] = NilPtr
         THEN [st EXCEPT !.ok = FALSE,
                         !.reads = @ \cup ({st.data[j]} \ {NilPtr})]
         ELSE IF CompareLess(st.data[j], st.data[j - 1])
              THEN InsertLoop([st EXCEPT !.data = Swap(@, j, j - 1),
                                         !.reads = @ \cup {st.data[j], st.data[j - 1]}],
                              j - 1)
              ELSE [st EXCEPT !.reads = @ \cup {st.data[j], st.data[j - 1]}]

RECURSIVE InsertionSort(_, _)
InsertionSort(st, i) ==
    IF ~st.ok \/ i > Len(st.data) THEN st
    ELSE InsertionSort(InsertLoop(st, i), i + 1)

SortFunc(data) == InsertionSort([ok |-> TRUE, data |-> data, reads |-> {}], 2)

\* The pages whose len(Visits) the comparator reads while data is sorted.
SortReads(data) == SortFunc(data).reads

\* slices.Reverse
Reverse(data) == [i \in 1..Len(data) |-> data[Len(data) + 1 - i]]

\* What MostVisitedPages returns for the slice it copied.
MostVisitedPages(pagesSlice) ==
    LET st == SortFunc(pagesSlice)
    IN IF st.ok THEN Ok(st.data) ELSE NilDereference

\* What LeastVisitedPages returns for the slice its MostVisitedPages copied.
LeastVisitedPages(pagesSlice) ==
    LET r == MostVisitedPages(pagesSlice)
    IN IF r.kind = "ok" THEN Ok(Reverse(r.val)) ELSE r

----------------------------------------------------------------------------
(* The query operations as steps of a caller.  ret holds what the step      *)
(* returned; any later step of the system drops it.  A query changes       *)
(* nothing a query reads, so a caller that has a result in hand calls      *)
(* again only after another step: this loses no result.                    *)

QueryIdle == [pc |-> "idle", caller |-> "", pages |-> {}, pagesSlice |-> <<>>]

Return(op, arg, res) ==
    /\ ret = NoRet
    /\ ret' = [op |-> op, arg |-> arg, res |-> res]
    /\ UNCHANGED <<model, mutex, now, req, qry>>

\* The operations that run under the lock from their first line to their
\* last: the lock is free before and after.
CallVisitsCount ==
    /\ qry.pc = "idle" /\ mutex = 0
    /\ Return("VisitsCount", 0, Ok(VisitsCount))

CallGetPage ==
    /\ qry.pc = "idle" /\ mutex = 0
    /\ \E path \in QueryPaths : Return("GetPage", path, Ok(GetPage(path)))

CallGetVisitor ==
    /\ qry.pc = "idle" /\ mutex = 0
    /\ \E ip \in QueryIPs : Return("GetVisitor", ip, Ok(GetVisitor(ip)))

CallGetVisit ==
    /\ qry.pc = "idle" /\ mutex = 0
    /\ \E id \in QueryIDs : Return("GetVisit", id, Ok(GetVisit(id)))

CallEstimatedCurrentVisitors ==
    /\ qry.pc = "idle" /\ mutex = 0
    /\ Return("EstimatedCurrentVisitors", 0, EstimatedCurrentVisitors)

CallVisitorsCount ==
    /\ qry.pc = "idle" /\ mutex = 0
    /\ Return("VisitorsCount", 0, Ok(VisitorsCount))

CallLanguagesCount ==
    /\ qry.pc = "idle" /\ mutex = 0
    /\ Return("LanguagesCount", 0, Ok(LanguagesCount))

\* Lines 239-248: AverageDynamicVisitsPerVisitor takes no lock.
CallAverageDynamicVisitsPerVisitor ==
    /\ qry.pc = "idle"
    /\ Return("AverageDynamicVisitsPerVisitor", 0, AverageDynamicVisitsPerVisitor)

\* The methods of a *Page or *Visitor take no lock.  The receiver is the
\* entity GetPage / GetVisitor gave for the key, a placeholder included.
CallPageAverageTimeSpent ==
    /\ qry.pc = "idle"
    /\ \E path \in QueryPaths :
          Return("Page.AverageTimeSpent", path, PageAverageTimeSpent(GetPage(path)))

CallPageAverageLoadingTime ==
    /\ qry.pc = "idle"
    /\ \E path \in QueryPaths :
          Return("Page.AverageLoadingTime", path, PageAverageLoadingTime(GetPage(path)))

CallVisitorAverageTimeSpent ==
    /\ qry.pc = "idle"
    /\ \E ip \in QueryIPs :
          Return("Visitor.AverageTimeSpent", ip, VisitorAverageTimeSpent(GetVisitor(ip)))

CallPageGetVisit ==
    /\ qry.pc = "idle"
    /\ \E path \in QueryPaths, date \in Times :
          Return("Page.GetVisit", <<path, date>>,
                 GetVisitByDate(GetPage(path).Visits, date))

CallVisitorGetVisit ==
    /\ qry.pc = "idle"
    /\ \E ip \in QueryIPs, date \in Times :
          Return("Visitor.GetVisit", <<ip, date>>,
                 GetVisitByDate(GetVisitor(ip).History, date))

\* Lines 251-259: MostVisitedPages copies the pages under the lock, for
\* itself or for LeastVisitedPages.
MostVisitedPagesCopy ==
    /\ qry.pc = "idle" /\ mutex = 0
    /\ ret = NoRet
    /\ \E caller \in {"MostVisitedPages", "LeastVisitedPages"},
          order \in RangeOrders(Pages) :
          qry' = [pc |-> "sort", caller |-> caller, pages |-> DOMAIN Pages,
                  pagesSlice |-> CopyPages(order)]
    /\ ret' = NoRet
    /\ UNCHANGED <<model, mutex, now, req>>

\* Lines 261-265 (and 271-273): the sort, without the lock, and the return.
MostVisitedPagesSort ==
    /\ qry.pc = "sort"
    /\ ret' = [op |-> qry.caller, arg |-> qry.pages,
               res |-> IF qry.caller = "MostVisitedPages"
                       THEN MostVisitedPages(qry.pagesSlice)
                       ELSE LeastVisitedPages(qry.pagesSlice)]
    /\ qry' = QueryIdle
    /\ UNCHANGED <<model, mutex, now, req>>

Query ==
    \/ CallVisitsCount
    \/ CallGetPage
    \/ CallGetVisitor
    \/ CallGetVisit
    \/ CallEstimatedCurrentVisitors
    \/ CallVisitorsCount
    \/ CallLanguagesCount
    \/ CallAverageDynamicVisitsPerVisitor
    \/ CallPageAverageTimeSpent
    \/ CallPageAverageLoadingTime
    \/ CallVisitorAverageTimeSpent
    \/ CallPageGetVisit
    \/ CallVisitorGetVisit
    \/ MostVisitedPagesCopy
    \/ MostVisitedPagesSort

----------------------------------------------------------------------------

Init ==
    /\ Visitors = EmptyMap
    /\ Pages = EmptyMap
    /\ Visits = EmptyMap
    /\ VisitorsLanguage = EmptyMap
    /\ currentVisitID = 0
    /\ mutex = 0
    /\ heap = <<>>
    /\ now = 0
    /\ req = [r \in ReqIds |-> Idle]
    /\ qry = QueryIdle
    /\ ret = NoRet

Middleware(r) ==
    \/ Alloc(r)
    \/ Begin(r)
    \/ HandlerReturn(r)
    \/ PostLock(r)
    \/ PostRecord(r)

\* Any number of requests inside Middleware at once.
Next ==
    \/ \E r \in ReqIds : Middleware(r)
    \/ Tick

Spec == Init /\ [][Next]_vars

\* No other request is inside Middleware.
Alone(r) == \A k \in ReqIds \ {r} : req[k].pc \in {"idle", "done"}

\* A request enters Middleware when no other is inside.
AllocAlone(r) == Alone(r) /\ Alloc(r)

\* The requests served one at a time, and a caller of the query operations
\* running beside them.
QueryNext ==
    \/ \E r \in ReqIds :
          \/ AllocAlone(r)
          \/ Begin(r)
          \/ HandlerReturn(r)
          \/ PostLock(r)
          \/ PostRecord(r)
    \/ Tick
    \/ Query

QuerySpec == Init /\ [][QueryNext]_vars

----------------------------------------------------------------------------
(* Properties *)

Done(r) == req[r].pc = "done"
Quiescent == \A r \in ReqIds : req[r].pc \in {"idle", "done"}
OutsideLockedBlock == \A r \in ReqIds : req[r].pc # "locked"
Recorded == 1..Len(heap)

\* C1: once the requests that entered have all completed, VisitsCount()
\* equals their number N and the recorded visits carry the N distinct
\* identifiers 1..N, one each.
C1_CountAndIdentifiers ==
    Quiescent =>
        LET n == Cardinality({r \in ReqIds : Done(r)})
        IN /\ VisitsCount = n
           /\ Len(heap) = n
           /\ {heap[a].ID : a \in Recorded} = 1..n

\* C2: outside the recorder's locked block every visitor has
\* DynamicVisits + StaticVisits = len(History).
C2_CountersMatchHistory ==
    OutsideLockedBlock =>
        \A ip \in DOMAIN Visitors :
            Visitors[ip].DynamicVisits + Visitors[ip].StaticVisits
                = Len(Visitors[ip].History)

SortedByDate(x) ==
    \A i, j \in 1..Len(x) : i < j => heap[x[i]].Date <= heap[x[j]].Date

\* C3: every page's Visits and every visitor's History are in non-decreasing
\* order of Date, under any interleaving of the recorders.
C3_SequencesSortedByDate ==
    /\ \A path \in DOMAIN Pages : SortedByDate(Pages[path].Visits)
    /\ \A ip \in DOMAIN Visitors : SortedByDate(Visitors[ip].History)

\* C3's case: a page holds two visits the clock tells apart, recorded by
\* the requests that entered after request 1 while request 1 is still inside
\* Middleware.
C3_Witness ==
    /\ req[1].pc = "returned"
    /\ \E path \in DOMAIN Pages :
          LET x == Pages[path].Visits
          IN /\ Len(x) >= 2
             /\ heap[x[1]].Date < heap[x[Len(x)]].Date
             /\ heap[x[1]].VisitedBy = heap[x[Len(x)]].VisitedBy

\* The content types of the requests that hold the text "text/html".
HTMLContentTypes == {"text/html", "text/html; charset=utf-8"}

\* The classification as the specification words it, on a request q.
ClaimedPageType(q) ==
    IF q.PageTypeKey.exists /\ q.PageTypeKey.type = "PageType"
    THEN q.PageTypeKey.val
    ELSE IF q.ContentType \in HTMLContentTypes THEN "route" ELSE "static"

\* C4: the visit a request records has the type of the request's explicit
\* page-type override if it carries one, and otherwise is dynamic exactly
\* when the response's Content-Type contains "text/html".
C4_Classification ==
    [][\A r \in ReqIds :
          (req[r].pc = "locked" /\ req'[r].pc = "done") =>
              /\ Len(heap') = Len(heap) + 1
              /\ heap'[Len(heap')].Type = ClaimedPageType(req[r].in)]_vars

\* C4's case: an image/png response with no override recorded as static and
\* a non-HTML response overridden to dynamic recorded as dynamic.
C4_Witness ==
    /\ \E a \in Recorded :
          heap[a].ContentType = "image/png" /\ heap[a].Type = Static
    /\ \E a \in Recorded :
          /\ heap[a].ContentType = "application/json; charset=utf-8"
          /\ heap[a].Type = Dynamic

\* C5: the three averages, called on an entity with no dynamic visit (a
\* placeholder included), return zero and do not panic.
C5_AverageOfNoDynamicVisitIsZero ==
    /\ ret.op \in {"Page.AverageTimeSpent", "Page.AverageLoadingTime"}
          /\ CountDynamic(GetPage(ret.arg).Visits) = 0
       => ret.res.kind = "ok" /\ ret.res.val = 0
    /\ ret.op = "Visitor.AverageTimeSpent"
          /\ CountDynamic(GetVisitor(ret.arg).History) = 0
       => ret.res.kind = "ok" /\ ret.res.val = 0

\* The visitors EstimatedCurrentVisitors is meant to count: those with a
\* dynamic visit whose last one is more recent than their average time spent.
ActiveVisitors ==
    {ip \in DOMAIN Visitors :
        /\ CountDynamic(Visitors[ip].History) > 0
        /\ SinceLastDynamicVisit(Visitors[ip])
              < SumTimeSpent(Visitors[ip].History)
                    \div CountDynamic(Visitors[ip].History)}

\* C6: EstimatedCurrentVisitors completes without a panic in every state,
\* one with a visitor without dynamic visits included, and its count leaves
\* such visitors out.
C6_EstimateSkipsVisitorsWithoutDynamicVisit ==
    ret.op = "EstimatedCurrentVisitors" =>
        /\ ret.res.kind = "ok"
        /\ ret.res.val = Cardinality(ActiveVisitors)

\* C7: MostVisitedPages returns a sequence of length k holding each of the k
\* pages of the collection once and nothing else, ordered by len(Visits).
C7_MostVisitedPagesIsSortedPermutation ==
    ret.op = "MostVisitedPages" =>
        /\ ret.res.kind = "ok"
        /\ Len(ret.res.val) = Cardinality(ret.arg)
        /\ {ret.res.val[i] : i \in 1..Len(ret.res.val)} = ret.arg
        /\ \A i, j \in 1..Len(ret.res.val) :
              i < j => ~CompareLess(ret.res.val[j], ret.res.val[i])

\* What the two listings can return on the pages as they are now.
MostVisitedPagesNow == {MostVisitedPages(CopyPages(o)) : o \in RangeOrders(Pages)}
LeastVisitedPagesNow == {LeastVisitedPages(CopyPages(o)) : o \in RangeOrders(Pages)}

\* C8: on one snapshot of the model, what LeastVisitedPages returns is the
\* exact reverse of what MostVisitedPages returns.
C8_LeastIsReverseOfMost ==
    \A m \in MostVisitedPagesNow, l \in LeastVisitedPagesNow :
        /\ m.kind = "ok"
        /\ l.kind = "ok"
        /\ l.val = Reverse(m.val)

\* The sequence Page.GetVisit / Visitor.GetVisit searched for ret.
SearchedSequence ==
    IF ret.op = "Page.GetVisit" THEN GetPage(ret.arg[1]).Visits
    ELSE GetVisitor(ret.arg[1]).History

\* C9: Page.GetVisit(T) and Visitor.GetVisit(T) return a visit of the
\* entity dated T when the entity has one, and the not-found error when
\* none of its visits is dated T.
C9_LookupByDateRoundTrip ==
    ret.op \in {"Page.GetVisit", "Visitor.GetVisit"} =>
        LET x == SearchedSequence
            T == ret.arg[2]
        IN IF \E k \in 1..Len(x) : heap[x[k]].Date = T
           THEN /\ ret.res.kind = "ok"
                /\ \E k \in 1..Len(x) : x[k] = ret.res.val
                /\ heap[ret.res.val].Date = T
           ELSE ret.res.kind = "error" /\ ret.res.val = NotFound.val

\* C9's case: a lookup that finds the last of three visits, two of them of
\* one date, in a history the clock has moved along.
C9_Witness ==
    /\ ret.op = "Visitor.GetVisit"
    /\ ret.res.kind = "ok"
    /\ LET x == SearchedSequence
       IN /\ Len(x) = 3
          /\ heap[x[1]].Date < heap[x[2]].Date
          /\ heap[x[3]].Date = ret.arg[2]
          /\ heap[x[1]].Date # ret.arg[2]

\* C10: what GetPage, GetVisitor and GetVisit return has its identifying
\* field equal to the key, and not empty or zero, exactly when an entity is
\* recorded under the key.
C10_IdentifyingFieldTellsPresence ==
    /\ ret.op = "GetPage" =>
          IF ret.arg \in DOMAIN Pages
          THEN ret.res.val.Path = ret.arg /\ ret.res.val.Path # ""
          ELSE ret.res.val.Path = ""
    /\ ret.op = "GetVisitor" =>
          IF ret.arg \in DOMAIN Visitors
          THEN ret.res.val.IP = ret.arg /\ ret.res.val.IP # ""
          ELSE ret.res.val.IP = ""
    /\ ret.op = "GetVisit" =>
          IF ret.arg \in DOMAIN Visits
          THEN ret.res.val.ID = ret.arg /\ ret.res.val.ID # 0
          ELSE ret.res.val.ID = 0

\* C11: the average-visits-per-visitor query returns the total history
\* length over the number of visitors, and zero, without a panic, when
\* there is no visitor.
C11_AverageVisitsPerVisitor ==
    ret.op = "AverageDynamicVisitsPerVisitor" =>
        /\ ret.res.kind = "ok"
        /\ ret.res.val = IF DOMAIN Visitors = {} THEN 0
                         ELSE TotalHistory(DOMAIN Visitors)
                                  \div Cardinality(DOMAIN Visitors)

\* The number of entries of the history whose Page is the page at path.
HistoryEntriesOn(history, path) ==
    Cardinality({i \in DOMAIN history : heap[history[i]].Page = path})

RECURSIVE SumHistoryEntriesOn(_, _)
SumHistoryEntriesOn(ips, path) ==
    IF ips = {} THEN 0
    ELSE LET ip == CHOOSE x \in ips : TRUE
         IN HistoryEntriesOn(Visitors[ip].History, path)
                + SumHistoryEntriesOn(ips \ {ip}, path)

\* C12: outside the recorder's locked block, for every page the number of
\* history entries, summed over all visitors, whose Page is that page equals
\* the length of the page's own visit sequence.
C12_HistoriesAccountForPageVisits ==
    OutsideLockedBlock =>
        \A path \in DOMAIN Pages :
            SumHistoryEntriesOn(DOMAIN Visitors, path) = Len(Pages[path].Visits)

\* Two visitors have visited one page and one of them a second page as well.
C12_Witness ==
    /\ OutsideLockedBlock
    /\ \E path \in DOMAIN Pages :
          /\ Len(Pages[path].Visits) >= 2
          /\ Cardinality({ip \in DOMAIN Visitors :
                             HistoryEntriesOn(Visitors[ip].History, path) > 0}) = 2
    /\ \E ip \in DOMAIN Visitors :
          Cardinality({heap[Visitors[ip].History[i]].Page :
                          i \in DOMAIN Visitors[ip].History}) = 2

\* The positions of the dynamic visits in a history.
DynamicEntries(history) ==
    {i \in DOMAIN history : heap[history[i]].Type = Dynamic}

\* The position of the first dynamic visit after position i, or 0.
NextDynamicEntry(history, i) ==
    LET later == {j \in DynamicEntries(history) : j > i}
    IN IF later = {} THEN 0
       ELSE CHOOSE j \in later : \A k \in later : j <= k

\* C13: once a visitor's visits are recorded, every dynamic visit that has a
\* later dynamic visit by the same visitor has TimeSpent equal to the gap
\* between the two dates, and the visitor's most recent dynamic visit has
\* TimeSpent zero.
C13_TimeSpentIsGapToNextDynamicVisit ==
    OutsideLockedBlock =>
        \A ip \in DOMAIN Visitors :
            LET history == Visitors[ip].History
            IN \A i \in DynamicEntries(history) :
                   LET j == NextDynamicEntry(history, i)
                   IN heap[history[i]].TimeSpent =
                          IF j = 0 THEN 0
                          ELSE heap[history[j]].Date - heap[history[i]].Date

\* C14: the TimeSpent of a recorded visit changes only in the step in which
\* a later dynamic visit of the same visitor is being recorded; static visits
\* of that visitor and visits of other visitors leave it alone.
C14_TimeSpentChangesOnlyOnLaterDynamicVisit ==
    [][\A a \in Recorded :
           heap'[a].TimeSpent # heap[a].TimeSpent =>
               \E r \in ReqIds :
                   /\ req[r].pc = "returned" /\ req'[r].pc = "locked"
                   /\ req'[r].pageType = Dynamic
                   /\ req[r].in.ClientIP = heap[a].VisitedBy]_vars

\* C15: while MostVisitedPages is between its copy and the end of its
\* unlocked sort, no step changes the length of a visit sequence that the
\* sort's comparator reads: the sort works on counts fixed at the copy.
C15_SortReadsASnapshot ==
    [][(qry.pc = "sort" /\ qry'.pc = "sort") =>
           \A path \in SortReads(qry.pagesSlice) :
               Len(Pages'[path].Visits) = Len(Pages[path].Visits)]_vars

\* The query operations of Statistics other than the page sorts.
LockedQueries ==
    {"VisitsCount", "VisitorsCount", "LanguagesCount",
     "EstimatedCurrentVisitors", "AverageDynamicVisitsPerVisitor",
     "GetPage", "GetVisitor", "GetVisit"}

\* C16: a query operation of Statistics other than the page sorts reads the
\* collections only while it holds the lock: it never runs while a recorder
\* holds the lock for its post-processing block.
C16_QueriesReadUnderTheLock ==
    ret.op \in LockedQueries => mutex = 0

\* C17: the recorder holds the lock only in its post-processing block
\* (the allocation locks and unlocks within its own step): never while its
\* handler runs, and an operation that has finished has left the lock free.
C17_LockHeldOnlyInPostProcessing ==
    /\ mutex \in {0} \cup ReqIds
    /\ \A r \in ReqIds :
          req[r].pc \in {"idle", "allocated", "handler", "returned", "done"}
              => mutex # r
    /\ Quiescent => mutex = 0

\* Two requests are inside their handlers at once while a third one holds
\* the lock for its post-processing.
C17_Witness ==
    /\ mutex \in ReqIds
    /\ req[mutex].pc = "locked"
    /\ Cardinality({r \in ReqIds : req[r].pc = "handler"}) = 2

\* C18: a step a request takes before its handler has returned (the
\* allocation of its identifier, the start of its handler) adds no visit to
\* a page, a history or the identifier-keyed collection, creates no page and
\* no visitor, and changes no visit counter and no language tally.
C18_NothingRecordedBeforeHandlerReturns ==
    [][\A r \in ReqIds :
           (req[r].pc \in {"idle", "allocated"} /\ req'[r].pc # req[r].pc)
               => UNCHANGED <<Visitors, Pages, Visits, VisitorsLanguage, heap>>]_vars

\* C18 as stated: such a step changes nothing of the Statistics value, its
\* identifier counter included.
C18_NoMutationBeforeHandlerReturns ==
    [][\A r \in ReqIds :
           (req[r].pc \in {"idle", "allocated"} /\ req'[r].pc # req[r].pc)
               => UNCHANGED model]_vars

\* Request 1 is still inside its handler after a later request has been
\* recorded: of request 1 only the identifier counter shows.
C18_Witness ==
    /\ req[1].pc = "handler"
    /\ \E r \in ReqIds : req[r].pc = "done"
    /\ Len(heap) = Cardinality({r \in ReqIds : req[r].pc = "done"})
    /\ currentVisitID > Len(heap)

\* The tally of a code: absent from the map reads as zero.
TallyOf(c) == IF c \in DOMAIN LanguagesCount THEN LanguagesCount[c] ELSE 0

\* Whether the header contains the two letters of c followed by ";".
HeaderHasCode(lang, c) ==
    LET cs == Chars(lang)
        cc == Chars(c)
    IN \E i \in 1..(Len(cs) - 2) :
           cs[i] = cc[1] /\ cs[i + 1] = cc[2] /\ cs[i + 2] = ";"

\* C19: for every code, the language tally equals the number of visitors
\* whose first-seen Accept-Language header contains that code followed by
\* ";"; nothing else is tallied.
C19_TallyCountsVisitorsPerCode ==
    /\ DOMAIN LanguagesCount \subseteq LanguageCodes
    /\ \A c \in LanguageCodes :
          TallyOf(c) = Cardinality({ip \in DOMAIN Visitors :
                                      HeaderHasCode(Visitors[ip].Language, c)})

\* C20: the step that records a request's visit gives the visit the
\* identifier allocated for that request, stores it under that identifier,
\* so that GetVisit of the identifier the handler saw returns it, and
\* leaves the entries of all other identifiers as they were.
C20_VisitStoredUnderItsOwnIdentifier ==
    [][\A r \in ReqIds :
           (req[r].pc = "locked" /\ req'[r].pc = "done") =>
               /\ heap'[Len(heap')].ID = req[r].VisitID
               /\ req[r].VisitID \in DOMAIN Visits'
               /\ Visits'[req[r].VisitID] = Len(heap')
               /\ \A id \in DOMAIN Visits : Visits'[id] = Visits[id]]_vars

====
